---- MODULE Spec2Model ----
(***************************************************************************)
(* Booking platform back end: the balance ledger (balanceService.ts,       *)
(* userService.ts) and the booking lifecycle (bookingService.ts,           *)
(* bookingUtils.ts) on top of Firestore.                                   *)
(*                                                                         *)
(* Money is counted in cents, so every amount is an integer and            *)
(* Math.round(x * 100) / 100 maps a stored amount to itself.               *)
(*                                                                         *)
(* A Firestore transaction (db.runTransaction) that reads the documents it *)
(* writes is serializable: its reads, checks and writes are one step.      *)
(* Every db.runTransaction call opens a transaction of its own; the writes *)
(* buffered on a transaction object reach the store when that object's     *)
(* callback returns, and are dropped when the callback throws.             *)
(***************************************************************************)
EXTENDS Integers, Sequences, FiniteSets, TLC

\* ---------------------------------------------------------------- bounds
MaxInitBalance == 2
MaxRequests == 3
MaxBookings == 2
MaxDirectOps == 1
MaxAmount == 1
MaxServiceOps == 1
MaxPrice == 2
MaxLimit == 2
MaxOffset == 1
MaxReads == 2

\* ------------------------------------------------------- fixed directory
Users == {"c1", "c2", "p1"}
Services == {"s1", "s2"}
Workers == {"w1", "w2"}
\* the ids a caller may name: "u0" has no document in users, "s0" none in
\* services
UserIds == Users \cup {"u0"}
ServiceIds == Services \cup {"s0"}
BookingIds == 1..MaxBookings

UserTypeOf(u) == IF u = "p1" THEN "provider" ELSE "client"

VARIABLES
    balance,        \* users/{id}.balance
    balance0,       \* the balances at the start (history)
    isActive,       \* users/{id}.isActive
    bookings,       \* bookings/{id}: a record, or NoBooking
    ledger,         \* balance_transactions, in commit order
    pc,             \* where each request worker stands
    req,            \* the locals of the request a worker runs
    result,         \* the last response returned to a caller
    nextBookingId,  \* generateBookingId: the next unused id
    nreq,           \* requests started so far
    ndirect,        \* direct balance operations run so far
    cancelOk,       \* successful cancelBooking returns per booking (history)
    services,       \* services/{id}: a record, or NoService
    nsvc,           \* service management requests started so far
    delPending,     \* deleteService calls between their check and their delete
    page,           \* the last result returned by a read operation
    nread           \* read operations run so far

vars == <<balance, balance0, isActive, bookings, ledger, pc, req, result,
          nextBookingId, nreq, ndirect, cancelOk, services, nsvc, delPending,
          page, nread>>
svcVars == <<services, nsvc, delPending>>
readVars == <<page, nread>>

NoBooking == [status |-> "none", clientId |-> "", providerId |-> "",
              serviceId |-> "", amount |-> 0]
NoReq == [op |-> "none", bookingId |-> 0, clientId |-> "", providerId |-> "",
          serviceId |-> "", amount |-> 0, userId |-> "", userType |-> ""]
NoResult == [op |-> "none", kind |-> "none", bookingId |-> 0]

\* the catalogue before any request: two services of provider p1
Service0(s) == [exists |-> TRUE, price |-> IF s = "s1" THEN 1 ELSE 2,
                isActive |-> TRUE, providerId |-> "p1"]
NoService == [exists |-> FALSE, price |-> 0, isActive |-> FALSE, providerId |-> ""]

\* serviceManager.getServiceById: the document, or null
getServiceById(svc, s) == IF s \in Services /\ svc[s].exists THEN svc[s] ELSE NoService
ServiceProviderOf(s) == services[s].providerId
ServicePriceOf(s) == services[s].price

Abs(x) == IF x < 0 THEN -x ELSE x
Round2(x) == x

RECURSIVE SumOver(_, _)
SumOver(f, S) ==
    IF S = {} THEN 0
    ELSE LET x == CHOOSE y \in S : TRUE IN f[x] + SumOver(f, S \ {x})

TotalBalance(b) == SumOver(b, Users)

\* ------------------------------------------------ balanceService.ts legs
\* a payment that debits the client and credits nobody
PaymentDebitOnly(clientId, providerId, amount) ==
    << [userId |-> clientId, amount |-> amount, type |-> "debit"] >>

\* createBookingPaymentOperations: client debit, then provider credit
createBookingPaymentOperations(clientId, providerId, amount) ==
    << [userId |-> clientId, amount |-> amount, type |-> "debit"],
       [userId |-> providerId, amount |-> amount, type |-> "credit"] >>

\* a refund that credits the client and forgets the provider's debit
RefundCreditOnly(clientId, providerId, amount) ==
    << [userId |-> clientId, amount |-> amount, type |-> "credit"] >>

\* createBookingRefundOperations: client credit, then provider debit
createBookingRefundOperations(clientId, providerId, amount) ==
    << [userId |-> clientId, amount |-> amount, type |-> "credit"],
       [userId |-> providerId, amount |-> amount, type |-> "debit"] >>

\* the balance a leg computes from the document read at the transaction's start
LegNewBalance(bal, op) ==
    IF op.type = "debit"
    THEN bal[op.userId] - Abs(op.amount)
    ELSE bal[op.userId] + Abs(op.amount)

MinOf(S) == CHOOSE x \in S : \A y \in S : x <= y

\* the checks without the sufficiency test on the balance read in the
\* transaction
MultiUserErrorNoBalanceCheck(bal, act, ops) ==
    LET n == Len(ops)
        badUser == {i \in 1..n : ops[i].userId \notin Users \/ ~act[ops[i].userId]}
    IN  IF badUser # {}
        THEN [kind |-> IF ops[MinOf(badUser)].userId \notin Users
                       THEN "not_found" ELSE "inactive",
              leg |-> MinOf(badUser)]
        ELSE [kind |-> "ok", leg |-> 0]

\* checks that ask only the debited accounts to be active
MultiUserErrorChecksDebitOnly(bal, act, ops) ==
    LET n == Len(ops)
        badUser == {i \in 1..n : \/ ops[i].userId \notin Users
                                 \/ ops[i].type = "debit" /\ ~act[ops[i].userId]}
        badBal == {i \in 1..n : ops[i].type = "debit" /\ LegNewBalance(bal, ops[i]) < 0}
    IN  IF badUser # {}
        THEN [kind |-> IF ops[MinOf(badUser)].userId \notin Users
                       THEN "not_found" ELSE "inactive",
              leg |-> MinOf(badUser)]
        ELSE IF badBal # {}
        THEN [kind |-> "insufficient", leg |-> MinOf(badBal)]
        ELSE [kind |-> "ok", leg |-> 0]

\* executeMultiUserOperation, the checks: first every account must exist and
\* be active, then every debit must leave its account non-negative
MultiUserError(bal, act, ops) ==
    LET n == Len(ops)
        badUser == {i \in 1..n : ops[i].userId \notin Users \/ ~act[ops[i].userId]}
        badBal == {i \in 1..n : ops[i].type = "debit" /\ LegNewBalance(bal, ops[i]) < 0}
    IN  IF badUser # {}
        THEN [kind |-> IF ops[MinOf(badUser)].userId \notin Users
                       THEN "not_found" ELSE "inactive",
              leg |-> MinOf(badUser)]
        ELSE IF badBal # {}
        THEN [kind |-> "insufficient", leg |-> MinOf(badBal)]
        ELSE [kind |-> "ok", leg |-> 0]

\* executeMultiUserOperation, the writes: one update per leg, in leg order,
\* each computed from the balance read at the start
RECURSIVE ApplyLegs(_, _, _, _)
ApplyLegs(orig, cur, ops, i) ==
    IF i > Len(ops) THEN cur
    ELSE ApplyLegs(orig,
                   [cur EXCEPT ![ops[i].userId] = Round2(LegNewBalance(orig, ops[i]))],
                   ops, i + 1)

\* executeMultiUserOperation, the ledger records: one per leg
MultiUserEntries(bal, ops, bookingId) ==
    [i \in 1..Len(ops) |->
        [userId |-> ops[i].userId, bookingId |-> bookingId,
         amount |-> Abs(ops[i].amount), type |-> ops[i].type,
         balanceBefore |-> bal[ops[i].userId],
         balanceAfter |-> Round2(LegNewBalance(bal, ops[i]))]]

\* a transfer that keeps the writes of the legs before the failing one
MultiUserPartialCommit(bal, act, led, ops, bookingId) ==
    LET err == MultiUserError(bal, act, ops)
        done == SubSeq(ops, 1, err.leg - 1)
    IN  IF err.kind = "ok"
        THEN [success |-> TRUE, error |-> err,
              balance |-> ApplyLegs(bal, bal, ops, 1),
              ledger |-> led \o MultiUserEntries(bal, ops, bookingId)]
        ELSE [success |-> FALSE, error |-> err,
              balance |-> ApplyLegs(bal, bal, done, 1),
              ledger |-> led \o MultiUserEntries(bal, done, bookingId)]

\* executeMultiUserOperation as a whole: the store after the call and whether
\* every returned result carries success = true
executeMultiUserOperation(bal, act, led, ops, bookingId) ==
    LET err == MultiUserError(bal, act, ops)
    IN  IF err.kind = "ok"
        THEN [success |-> TRUE, error |-> err,
              balance |-> ApplyLegs(bal, bal, ops, 1),
              ledger |-> led \o MultiUserEntries(bal, ops, bookingId)]
        ELSE [success |-> FALSE, error |-> err, balance |-> bal, ledger |-> led]

\* ------------------------------------------------------- bookingUtils.ts
canCancelBooking(booking) == booking.status = "confirmed"

\* a permission check that lets any caller in the client role cancel
AnyClientMayCancel(booking, userId, userType) ==
    IF ~canCancelBooking(booking) THEN FALSE
    ELSE IF userType = "client" THEN TRUE
    ELSE IF userType = "provider" /\ booking.providerId = userId THEN TRUE
    ELSE FALSE

canUserCancelBooking(booking, userId, userType) ==
    IF ~canCancelBooking(booking) THEN FALSE
    ELSE IF userType = "client" /\ booking.clientId = userId THEN TRUE
    ELSE IF userType = "provider" /\ booking.providerId = userId THEN TRUE
    ELSE FALSE

\* the business rules without the balance rule
BusinessRulesNoBalanceRule(clientBalance, servicePrice, serviceActive, providerActive) ==
    (IF ~serviceActive THEN {"Service is not active"} ELSE {})
    \cup (IF ~providerActive THEN {"Service provider is not active"} ELSE {})
    \cup (IF servicePrice <= 0
          THEN {"Service price must be greater than zero"} ELSE {})

\* business rules that ask for more than the price on the account
BusinessRulesStrictlyMore(clientBalance, servicePrice, serviceActive, providerActive) ==
    (IF ~serviceActive THEN {"Service is not active"} ELSE {})
    \cup (IF ~providerActive THEN {"Service provider is not active"} ELSE {})
    \cup (IF clientBalance <= servicePrice
          THEN {"Insufficient balance to complete booking"} ELSE {})
    \cup (IF servicePrice <= 0
          THEN {"Service price must be greater than zero"} ELSE {})

validateBookingBusinessRules(clientBalance, servicePrice, serviceActive, providerActive) ==
    (IF ~serviceActive THEN {"Service is not active"} ELSE {})
    \cup (IF ~providerActive THEN {"Service provider is not active"} ELSE {})
    \cup (IF clientBalance < servicePrice
          THEN {"Insufficient balance to complete booking"} ELSE {})
    \cup (IF servicePrice <= 0
          THEN {"Service price must be greater than zero"} ELSE {})

\* a refund of what the service costs now
RefundAtCurrentPrice(booking) == getServiceById(services, booking.serviceId).price

calculateRefundAmount(booking) == booking.amount

\* ----------------------------------------------------- bookingService.ts
\* checks that look only at whether the client and the service exist
ValidateExistenceOnly(bal, act, svc, clientId, serviceId) ==
    IF clientId \notin Users THEN "ClientNotFound"
    ELSE IF ~getServiceById(svc, serviceId).exists THEN "ServiceNotFound"
    ELSE "ok"

\* validateBookingCreation followed by validateBookingBusinessRules: the
\* error createBooking throws before it writes anything, or "ok"
validateBookingCreation(bal, act, svc, clientId, serviceId) ==
    LET service == getServiceById(svc, serviceId)
    IN  IF clientId \notin Users THEN "ClientNotFound"
        ELSE IF ~act[clientId] THEN "ClientInactive"
        ELSE IF UserTypeOf(clientId) # "client" THEN "WrongRole"
        ELSE IF ~service.exists THEN "ServiceNotFound"
        ELSE IF ~service.isActive THEN "ServiceInactive"
        ELSE IF service.providerId \notin Users THEN "ProviderNotFound"
        ELSE IF ~act[service.providerId] THEN "ProviderInactive"
        ELSE LET errors == validateBookingBusinessRules(
                               bal[clientId], service.price, service.isActive,
                               act[service.providerId])
             IN  IF errors = {} THEN "ok"
                 ELSE IF "Insufficient balance to complete booking" \in errors
                 THEN "InsufficientFunds" ELSE "Invalid"

Respond(w, op, kind, b) ==
    /\ result' = [op |-> op, kind |-> kind, bookingId |-> b]
    /\ pc' = [pc EXCEPT ![w] = "idle"]
    /\ req' = [req EXCEPT ![w] = NoReq]

\* createBooking, lines 52-65: the checks before anything is written
CreateValidate(w, clientId, serviceId) ==
    /\ pc[w] = "idle"
    /\ nreq < MaxRequests
    /\ nreq' = nreq + 1
    /\ LET v == validateBookingCreation(balance, isActive, services, clientId, serviceId)
       IN  IF v # "ok"
           THEN Respond(w, "create", v, 0)
           ELSE /\ nextBookingId + Cardinality({x \in Workers : pc[x] = "c_load"})
                      <= MaxBookings
                /\ pc' = [pc EXCEPT ![w] = "c_load"]
                /\ req' = [req EXCEPT ![w] =
                      [NoReq EXCEPT !.op = "create", !.clientId = clientId,
                                    !.serviceId = serviceId, !.userId = clientId,
                                    !.userType = "client"]]
                /\ UNCHANGED result
    /\ UNCHANGED <<balance, balance0, isActive, bookings, ledger, nextBookingId,
                   ndirect, cancelOk>>
    /\ UNCHANGED svcVars
    /\ UNCHANGED readVars

\* createBooking, lines 67-94: the service is read again, a fresh booking id
\* is drawn and the booking is built with the price of this second read
CreateLoad(w) ==
    /\ pc[w] = "c_load"
    /\ LET r == req[w]
           service == getServiceById(services, r.serviceId)
       IN  IF ~service.exists
           THEN /\ Respond(w, "create", "ServiceOrClientNotFound", 0)
                /\ UNCHANGED nextBookingId
           ELSE /\ nextBookingId' = nextBookingId + 1
                /\ pc' = [pc EXCEPT ![w] = "c_transfer"]
                /\ req' = [req EXCEPT ![w] =
                      [r EXCEPT !.bookingId = nextBookingId,
                                !.providerId = service.providerId,
                                !.amount = service.price]]
                /\ UNCHANGED result
    /\ UNCHANGED <<balance, balance0, isActive, bookings, ledger, nreq, ndirect,
                   cancelOk>>
    /\ UNCHANGED svcVars
    /\ UNCHANGED readVars

\* a payment step whose booking write is not dropped when the payment fails
CreateTransferKeepsBooking(w) ==
    /\ pc[w] = "c_transfer"
    /\ LET r == req[w]
           t == executeMultiUserOperation(balance, isActive, ledger,
                    createBookingPaymentOperations(r.clientId, r.providerId, r.amount),
                    r.bookingId)
       IN  /\ balance' = t.balance
           /\ ledger' = t.ledger
           /\ IF t.success
              THEN /\ pc' = [pc EXCEPT ![w] = "c_commit"]
                   /\ UNCHANGED <<req, result, bookings>>
              ELSE /\ Respond(w, "create", "TransferFailed", r.bookingId)
                   /\ bookings' = [bookings EXCEPT ![r.bookingId] =
                         [status |-> "confirmed", clientId |-> r.clientId,
                          providerId |-> r.providerId, serviceId |-> r.serviceId,
                          amount |-> r.amount]]
    /\ UNCHANGED <<balance0, isActive, nextBookingId, nreq, ndirect, cancelOk>>
    /\ UNCHANGED svcVars
    /\ UNCHANGED readVars

\* a payment that waits for the funds instead of failing
CreateTransferWaitsForFunds(w) ==
    /\ pc[w] = "c_transfer"
    /\ LET r == req[w]
           t == executeMultiUserOperation(balance, isActive, ledger,
                    createBookingPaymentOperations(r.clientId, r.providerId, r.amount),
                    r.bookingId)
       IN  /\ t.success
           /\ balance' = t.balance
           /\ ledger' = t.ledger
           /\ pc' = [pc EXCEPT ![w] = "c_commit"]
           /\ UNCHANGED <<req, result>>
    /\ UNCHANGED <<balance0, isActive, bookings, nextBookingId, nreq, ndirect, cancelOk>>
    /\ UNCHANGED svcVars
    /\ UNCHANGED readVars

\* createBooking, lines 105-121: the payment runs in the transaction that
\* executeMultiUserOperation opens; a failed payment makes the callback throw,
\* which drops the buffered booking write
CreateTransfer(w) ==
    /\ pc[w] = "c_transfer"
    /\ LET r == req[w]
           t == executeMultiUserOperation(balance, isActive, ledger,
                    createBookingPaymentOperations(r.clientId, r.providerId, r.amount),
                    r.bookingId)
       IN  /\ balance' = t.balance
           /\ ledger' = t.ledger
           /\ IF t.success
              THEN /\ pc' = [pc EXCEPT ![w] = "c_commit"]
                   /\ UNCHANGED <<req, result>>
              ELSE Respond(w, "create", "TransferFailed", r.bookingId)
    /\ UNCHANGED <<balance0, isActive, bookings, nextBookingId, nreq, ndirect, cancelOk>>
    /\ UNCHANGED svcVars
    /\ UNCHANGED readVars

\* createBooking, lines 97-103 and 122-124: the callback has returned, the
\* buffered transaction.set of the booking document commits
CreateCommit(w) ==
    /\ pc[w] = "c_commit"
    /\ LET r == req[w]
       IN  /\ bookings' = [bookings EXCEPT ![r.bookingId] =
                 [status |-> "confirmed", clientId |-> r.clientId,
                  providerId |-> r.providerId, serviceId |-> r.serviceId,
                  amount |-> r.amount]]
           /\ Respond(w, "create", "ok", r.bookingId)
    /\ UNCHANGED <<balance, balance0, isActive, ledger, nextBookingId, nreq, ndirect, cancelOk>>
    /\ UNCHANGED svcVars
    /\ UNCHANGED readVars

\* createBooking, lines 126-129: the commit of the booking write is rejected
\* by the store and runTransaction throws
CreateCommitFail(w) ==
    /\ pc[w] = "c_commit"
    /\ Respond(w, "create", "StorageFailure", req[w].bookingId)
    /\ UNCHANGED <<balance, balance0, isActive, bookings, ledger, nextBookingId,
                   nreq, ndirect, cancelOk>>
    /\ UNCHANGED svcVars
    /\ UNCHANGED readVars
\* cancelBooking, lines 142-160: the booking is read outside any transaction
\* and checked on that snapshot
CancelRead(w, bookingId, userId, userType) ==
    /\ pc[w] = "idle"
    /\ nreq < MaxRequests
    /\ nreq' = nreq + 1
    /\ LET existingBooking == bookings[bookingId]
       IN  IF existingBooking.status = "none"
           THEN Respond(w, "cancel", "NotFound", bookingId)
           ELSE IF ~canUserCancelBooking(existingBooking, userId, userType)
           THEN Respond(w, "cancel", "Unauthorized", bookingId)
           ELSE IF existingBooking.status # "confirmed"
           THEN Respond(w, "cancel", "InvalidState", bookingId)
           ELSE /\ pc' = [pc EXCEPT ![w] = "x_transfer"]
                /\ req' = [req EXCEPT ![w] =
                      [op |-> "cancel", bookingId |-> bookingId,
                       clientId |-> existingBooking.clientId,
                       providerId |-> existingBooking.providerId,
                       serviceId |-> existingBooking.serviceId,
                       amount |-> calculateRefundAmount(existingBooking),
                       userId |-> userId, userType |-> userType]]
                /\ UNCHANGED result
    /\ UNCHANGED <<balance, balance0, isActive, bookings, ledger, nextBookingId,
                   ndirect, cancelOk>>
    /\ UNCHANGED svcVars
    /\ UNCHANGED readVars

\* a cancel whose refused refund still credits the client
CancelTransferCreditsOnFailure(w) ==
    /\ pc[w] = "x_transfer"
    /\ LET r == req[w]
           t == executeMultiUserOperation(balance, isActive, ledger,
                    createBookingRefundOperations(r.clientId, r.providerId, r.amount),
                    r.bookingId)
       IN  /\ ledger' = t.ledger
           /\ IF t.success
              THEN /\ balance' = t.balance
                   /\ pc' = [pc EXCEPT ![w] = "x_commit"]
                   /\ UNCHANGED <<req, result>>
              ELSE /\ balance' = [balance EXCEPT ![r.clientId] = @ + r.amount]
                   /\ Respond(w, "cancel", "TransferFailed", r.bookingId)
    /\ UNCHANGED <<balance0, isActive, bookings, nextBookingId, nreq, ndirect, cancelOk>>
    /\ UNCHANGED svcVars
    /\ UNCHANGED readVars

\* a cancel that goes on to the status update without refunding
CancelTransferSkipsRefund(w) ==
    /\ pc[w] = "x_transfer"
    /\ pc' = [pc EXCEPT ![w] = "x_commit"]
    /\ UNCHANGED <<balance, balance0, isActive, bookings, ledger, req, result,
                   nextBookingId, nreq, ndirect, cancelOk>>
    /\ UNCHANGED svcVars
    /\ UNCHANGED readVars

\* cancelBooking, lines 185-201: the refund runs in the transaction that
\* executeMultiUserOperation opens; a failed refund makes the callback throw,
\* which drops the buffered status update
CancelTransfer(w) ==
    /\ pc[w] = "x_transfer"
    /\ LET r == req[w]
           t == executeMultiUserOperation(balance, isActive, ledger,
                    createBookingRefundOperations(r.clientId, r.providerId, r.amount),
                    r.bookingId)
       IN  /\ balance' = t.balance
           /\ ledger' = t.ledger
           /\ IF t.success
              THEN /\ pc' = [pc EXCEPT ![w] = "x_commit"]
                   /\ UNCHANGED <<req, result>>
              ELSE Respond(w, "cancel", "TransferFailed", r.bookingId)
    /\ UNCHANGED <<balance0, isActive, bookings, nextBookingId, nreq, ndirect, cancelOk>>
    /\ UNCHANGED svcVars
    /\ UNCHANGED readVars

\* a cancel commit that deletes the booking document
CancelCommitDeletes(w) ==
    /\ pc[w] = "x_commit"
    /\ LET b == req[w].bookingId
       IN  /\ bookings' = [bookings EXCEPT ![b] = NoBooking]
           /\ cancelOk' = [cancelOk EXCEPT ![b] = @ + 1]
           /\ Respond(w, "cancel", "ok", b)
    /\ UNCHANGED <<balance, balance0, isActive, ledger, nextBookingId, nreq, ndirect>>
    /\ UNCHANGED svcVars
    /\ UNCHANGED readVars

\* cancelBooking, lines 165-175 and 202-204: the callback has returned, the
\* buffered transaction.update of the status commits
CancelCommit(w) ==
    /\ pc[w] = "x_commit"
    /\ LET b == req[w].bookingId
       IN  /\ bookings' = [bookings EXCEPT ![b].status = "cancelled"]
           /\ cancelOk' = [cancelOk EXCEPT ![b] = @ + 1]
           /\ Respond(w, "cancel", "ok", b)
    /\ UNCHANGED <<balance, balance0, isActive, ledger, nextBookingId, nreq, ndirect>>
    /\ UNCHANGED svcVars
    /\ UNCHANGED readVars

\* cancelBooking, lines 206-209: the commit of the status update is rejected
\* by the store and runTransaction throws
CancelCommitFail(w) ==
    /\ pc[w] = "x_commit"
    /\ Respond(w, "cancel", "StorageFailure", req[w].bookingId)
    /\ UNCHANGED <<balance, balance0, isActive, bookings, ledger, nextBookingId,
                   nreq, ndirect, cancelOk>>
    /\ UNCHANGED svcVars
    /\ UNCHANGED readVars

\* another request is inside its balance transaction on an account of w's
Contended(w) ==
    \E x \in Workers \ {w} :
        /\ pc[x] \in {"c_transfer", "x_transfer"}
        /\ {req[x].clientId, req[x].providerId}
              \cap {req[w].clientId, req[w].providerId} # {}

\* executeMultiUserOperation, lines 226 and 323-333: the balance transaction
\* loses to a concurrent one on the same accounts, runTransaction gives up and
\* rejects, the catch block returns failure for every leg and createBooking
\* throws with the store's message; nothing is written
CreateTransferAbort(w) ==
    /\ pc[w] = "c_transfer"
    /\ Contended(w)
    /\ Respond(w, "create", "TransferAborted", req[w].bookingId)
    /\ UNCHANGED <<balance, balance0, isActive, bookings, ledger, nextBookingId,
                   nreq, ndirect, cancelOk>>
    /\ UNCHANGED svcVars
    /\ UNCHANGED readVars

\* the same for the refund of cancelBooking
CancelTransferAbort(w) ==
    /\ pc[w] = "x_transfer"
    /\ Contended(w)
    /\ Respond(w, "cancel", "TransferAborted", req[w].bookingId)
    /\ UNCHANGED <<balance, balance0, isActive, bookings, ledger, nextBookingId,
                   nreq, ndirect, cancelOk>>
    /\ UNCHANGED svcVars
    /\ UNCHANGED readVars

\* an account is deactivated: users/{id}.isActive is set to false
DeactivateUser(u) ==
    /\ isActive[u]
    /\ isActive' = [isActive EXCEPT ![u] = FALSE]
    /\ UNCHANGED <<balance, balance0, bookings, ledger, pc, req, result,
                   nextBookingId, nreq, ndirect, cancelOk>>
    /\ UNCHANGED svcVars
    /\ UNCHANGED readVars

\* ------------------------------------- direct balance operations (no caller
\* in the booking flow; exported by balanceService and userService)
\* executeAtomicOperation: one transaction on one account
executeAtomicOperation(bal, act, led, op, bookingId) ==
    IF op.userId \notin Users \/ ~act[op.userId]
       \/ (op.type = "debit" /\ LegNewBalance(bal, op) < 0)
    THEN [success |-> FALSE, balance |-> bal, ledger |-> led]
    ELSE [success |-> TRUE,
          balance |-> [bal EXCEPT ![op.userId] = Round2(LegNewBalance(bal, op))],
          ledger |-> Append(led,
              [userId |-> op.userId, bookingId |-> bookingId,
               amount |-> Abs(op.amount), type |-> op.type,
               balanceBefore |-> bal[op.userId],
               balanceAfter |-> Round2(LegNewBalance(bal, op))])]

ExecuteAtomicOperation(u, amount, type) ==
    /\ ndirect < MaxDirectOps /\ nreq < MaxRequests
    /\ ndirect' = ndirect + 1 /\ nreq' = nreq + 1
    /\ LET t == executeAtomicOperation(balance, isActive, ledger,
                    [userId |-> u, amount |-> amount, type |-> type], 0)
       IN  /\ balance' = t.balance
           /\ ledger' = t.ledger
           /\ result' = [op |-> "atomic", kind |-> IF t.success THEN "ok" ELSE "failed",
                         bookingId |-> 0]
    /\ UNCHANGED <<balance0, isActive, bookings, pc, req, nextBookingId, cancelOk>>
    /\ UNCHANGED svcVars
    /\ UNCHANGED readVars

\* a signed delta applied without the check on the new balance
updateBalanceUnchecked(bal, u, amount) ==
    IF u \notin Users THEN bal
    ELSE [bal EXCEPT ![u] = bal[u] + amount]

\* executeMultiUserOperation called with legs of the caller's choice
ExecuteMultiUserOperation(ops) ==
    /\ ndirect < MaxDirectOps /\ nreq < MaxRequests
    /\ ndirect' = ndirect + 1 /\ nreq' = nreq + 1
    /\ LET t == executeMultiUserOperation(balance, isActive, ledger, ops, 0)
       IN  /\ balance' = t.balance
           /\ ledger' = t.ledger
           /\ result' = [op |-> "multi", kind |-> t.error.kind, bookingId |-> 0]
    /\ UNCHANGED <<balance0, isActive, bookings, pc, req, nextBookingId, cancelOk>>
    /\ UNCHANGED svcVars
    /\ UNCHANGED readVars

\* userService.updateBalance: a signed delta, no ledger record
updateBalance(bal, u, amount) ==
    IF u \notin Users \/ bal[u] + amount < 0 THEN bal
    ELSE [bal EXCEPT ![u] = bal[u] + amount]

UpdateBalance(u, amount) ==
    /\ ndirect < MaxDirectOps /\ nreq < MaxRequests
    /\ ndirect' = ndirect + 1 /\ nreq' = nreq + 1
    /\ balance' = updateBalance(balance, u, amount)
    /\ result' = [op |-> "update",
                  kind |-> IF u \notin Users THEN "not_found"
                           ELSE IF balance[u] + amount < 0 THEN "insufficient"
                           ELSE "ok",
                  bookingId |-> 0]
    /\ UNCHANGED <<balance0, isActive, bookings, ledger, pc, req, nextBookingId,
                   cancelOk>>
    /\ UNCHANGED svcVars
    /\ UNCHANGED readVars

\* a rollback that undoes record i by deleting it from the ledger
RollbackRemovesRecord(i) ==
    /\ ndirect < MaxDirectOps /\ nreq < MaxRequests
    /\ ndirect' = ndirect + 1 /\ nreq' = nreq + 1
    /\ i \in 1..Len(ledger)
    /\ ledger' = SubSeq(ledger, 1, i - 1) \o SubSeq(ledger, i + 1, Len(ledger))
    /\ result' = [op |-> "rollback", kind |-> "ok", bookingId |-> ledger[i].bookingId]
    /\ UNCHANGED <<balance, balance0, isActive, bookings, pc, req, nextBookingId, cancelOk>>
    /\ UNCHANGED svcVars
    /\ UNCHANGED readVars

\* a rollback that applies the record's own direction a second time
RollbackRepeatsRecord(i) ==
    /\ ndirect < MaxDirectOps /\ nreq < MaxRequests
    /\ ndirect' = ndirect + 1 /\ nreq' = nreq + 1
    /\ IF i \notin 1..Len(ledger)
       THEN /\ result' = [op |-> "rollback", kind |-> "failed", bookingId |-> 0]
            /\ UNCHANGED <<balance, ledger>>
       ELSE LET orig == ledger[i]
                t == executeAtomicOperation(balance, isActive, ledger,
                         [userId |-> orig.userId, amount |-> orig.amount,
                          type |-> orig.type],
                         orig.bookingId)
            IN  /\ balance' = t.balance
                /\ ledger' = t.ledger
                /\ result' = [op |-> "rollback",
                              kind |-> IF t.success THEN "ok" ELSE "failed",
                              bookingId |-> orig.bookingId]
    /\ UNCHANGED <<balance0, isActive, bookings, pc, req, nextBookingId, cancelOk>>
    /\ UNCHANGED svcVars
    /\ UNCHANGED readVars

\* rollbackOperation: the compensating operation of ledger record i; a record
\* that does not exist makes the call return false
RollbackOperation(i) ==
    /\ ndirect < MaxDirectOps /\ nreq < MaxRequests
    /\ ndirect' = ndirect + 1 /\ nreq' = nreq + 1
    /\ IF i \notin 1..Len(ledger)
       THEN /\ result' = [op |-> "rollback", kind |-> "failed", bookingId |-> 0]
            /\ UNCHANGED <<balance, ledger>>
       ELSE LET orig == ledger[i]
                t == executeAtomicOperation(balance, isActive, ledger,
                         [userId |-> orig.userId, amount |-> orig.amount,
                          type |-> IF orig.type = "debit" THEN "credit" ELSE "debit"],
                         orig.bookingId)
            IN  /\ balance' = t.balance
                /\ ledger' = t.ledger
                /\ result' = [op |-> "rollback",
                              kind |-> IF t.success THEN "ok" ELSE "failed",
                              bookingId |-> orig.bookingId]
    /\ UNCHANGED <<balance0, isActive, bookings, pc, req, nextBookingId, cancelOk>>
    /\ UNCHANGED svcVars
    /\ UNCHANGED readVars

\* ------------------------------------------------------------ read side
\* BookingFilters: "" , 0 and NoAmount stand for a field that is left out
NoAmount == -1
NoFilters == [clientId |-> "", providerId |-> "", serviceId |-> "", status |-> "",
              startDate |-> 0, endDate |-> 0, minAmount |-> NoAmount,
              maxAmount |-> NoAmount, sortBy |-> "createdAt", sortOrder |-> "desc",
              limit |-> 0, offset |-> 0]
\* the last response of the read side: readTime is the snapshot's read time,
\* again says that the read repeated the one before it on the same snapshot
NoPage == [op |-> "none", caller |-> "", filters |-> NoFilters, bookings |-> << >>,
           total |-> 0, hasMore |-> FALSE, readTime |-> 0, again |-> FALSE]

\* booking ids are drawn in time order: the id stands for createdAt
CreatedAt(b) == b

\* the time of the last write to the bookings collection: a booking is
\* written once when it is created and once when it is cancelled
ReadTime(bks) ==
    Cardinality({b \in BookingIds : bks[b].status # "none"})
    + Cardinality({b \in BookingIds : bks[b].status = "cancelled"})

\* the where clauses of the Firestore query
MatchesQuery(bks, b, f) ==
    /\ bks[b].status # "none"
    /\ f.clientId = "" \/ bks[b].clientId = f.clientId
    /\ f.providerId = "" \/ bks[b].providerId = f.providerId
    /\ f.serviceId = "" \/ bks[b].serviceId = f.serviceId
    /\ f.status = "" \/ bks[b].status = f.status
    /\ f.startDate = 0 \/ CreatedAt(b) >= f.startDate
    /\ f.endDate = 0 \/ CreatedAt(b) <= f.endDate

\* orderBy(sortBy, sortOrder); equal keys are ordered by document id
SortKey(bks, b, sortBy) ==
    CASE sortBy = "createdAt" -> CreatedAt(b)
      [] sortBy = "amount" -> bks[b].amount
      [] sortBy = "status" -> IF bks[b].status = "cancelled" THEN 1 ELSE 2
ComesBefore(bks, a, b, f) ==
    LET ka == SortKey(bks, a, f.sortBy)
        kb == SortKey(bks, b, f.sortBy)
    IN  IF f.sortOrder = "asc"
        THEN ka < kb \/ (ka = kb /\ a < b)
        ELSE ka > kb \/ (ka = kb /\ a > b)
RECURSIVE SortIds(_, _, _)
SortIds(bks, S, f) ==
    IF S = {} THEN << >>
    ELSE LET m == CHOOSE a \in S : \A b \in S \ {a} : ComesBefore(bks, a, b, f)
         IN  <<m>> \o SortIds(bks, S \ {m}, f)

\* Array.prototype.slice(0, n) and slice(n)
Take(seq, n) == SubSeq(seq, 1, IF n < Len(seq) THEN n ELSE Len(seq))
Drop(seq, n) == SubSeq(seq, n + 1, Len(seq))
IdsOf(seq) == {seq[i] : i \in 1..Len(seq)}

\* getBookingHistory: the query fetches limit + 1 documents, the amount
\* filters run in memory, then the list is cut to limit and then to offset
getBookingHistory(bks, f) ==
    LET limit == IF f.limit = 0 THEN 50 ELSE IF f.limit < 100 THEN f.limit ELSE 100
        allBookings == Take(SortIds(bks, {b \in BookingIds : MatchesQuery(bks, b, f)}, f),
                            limit + 1)
        InRange(b) == /\ f.minAmount = NoAmount \/ bks[b].amount >= f.minAmount
                      /\ f.maxAmount = NoAmount \/ bks[b].amount <= f.maxAmount
        filtered == SelectSeq(allBookings, InRange)
        hasMore == Len(filtered) > limit
        cut == IF hasMore THEN Take(filtered, limit) ELSE filtered
        out == IF f.offset > 0 THEN Drop(cut, f.offset) ELSE cut
    IN  [bookings |-> out, total |-> Len(out), hasMore |-> hasMore]

\* getBookingsByClient and getBookingsByProvider: newest first, no limit
getBookingsByClient(bks, clientId) ==
    SortIds(bks, {b \in BookingIds : bks[b].status # "none" /\ bks[b].clientId = clientId},
            NoFilters)
getBookingsByProvider(bks, providerId) ==
    SortIds(bks, {b \in BookingIds : bks[b].status # "none"
                                      /\ bks[b].providerId = providerId},
            NoFilters)

\* a route that takes clientId and providerId from the query string when given
HistoryRouteTrustsQuery(u, query) ==
    IF query.clientId # "" \/ query.providerId # "" THEN query
    ELSE IF UserTypeOf(u) = "client" THEN [query EXCEPT !.clientId = u]
    ELSE [query EXCEPT !.providerId = u]
\* GET /bookings/history: clientId and providerId are not read from the query
\* string; the caller's id is set as the one or the other by the token's type
HistoryRouteFilters(u, query) ==
    IF UserTypeOf(u) = "client" THEN [query EXCEPT !.clientId = u, !.providerId = ""]
    ELSE [query EXCEPT !.clientId = "", !.providerId = u]

\* the query strings a caller sends: none, paging, a sort, or one predicate
HistoryQueries ==
    {NoFilters}
    \cup {[NoFilters EXCEPT !.limit = l, !.offset = o] :
             l \in 1..MaxLimit, o \in 0..MaxOffset}
    \cup {[NoFilters EXCEPT !.sortBy = "amount", !.sortOrder = "asc", !.limit = 1],
          [NoFilters EXCEPT !.status = "cancelled"],
          [NoFilters EXCEPT !.serviceId = "s2"],
          [NoFilters EXCEPT !.minAmount = MaxPrice],
          [NoFilters EXCEPT !.maxAmount = 1],
          [NoFilters EXCEPT !.startDate = MaxBookings],
          [NoFilters EXCEPT !.clientId = "c2"],
          [NoFilters EXCEPT !.clientId = "c1", !.providerId = "u0"]}

\* a read that moves a cursor: each read starts where the last one stopped
GetBookingHistoryMovesCursor(u, query) ==
    /\ nread < MaxReads
    /\ nread' = nread + 1
    /\ LET f == HistoryRouteFilters(u, query)
           r == getBookingHistory(bookings, [f EXCEPT !.offset = f.offset + nread])
       IN  page' = [op |-> "history", caller |-> u, filters |-> f,
                    bookings |-> r.bookings, total |-> r.total, hasMore |-> r.hasMore,
                    readTime |-> ReadTime(bookings),
                    again |-> /\ page.op = "history" /\ page.caller = u
                              /\ page.filters = f
                              /\ page.readTime = ReadTime(bookings)]
    /\ UNCHANGED <<balance, balance0, isActive, bookings, ledger, pc, req, result,
                   nextBookingId, nreq, ndirect, cancelOk>>
    /\ UNCHANGED svcVars
GetBookingHistory(u, query) ==
    /\ nread < MaxReads
    /\ nread' = nread + 1
    /\ LET f == HistoryRouteFilters(u, query)
           r == getBookingHistory(bookings, f)
       IN  page' = [op |-> "history", caller |-> u, filters |-> f,
                    bookings |-> r.bookings, total |-> r.total, hasMore |-> r.hasMore,
                    readTime |-> ReadTime(bookings),
                    again |-> /\ page.op = "history" /\ page.caller = u
                              /\ page.filters = f
                              /\ page.readTime = ReadTime(bookings)]
    /\ UNCHANGED <<balance, balance0, isActive, bookings, ledger, pc, req, result,
                   nextBookingId, nreq, ndirect, cancelOk>>
    /\ UNCHANGED svcVars

\* GET /bookings/my
GetMyBookings(u) ==
    /\ nread < MaxReads
    /\ nread' = nread + 1
    /\ LET r == IF UserTypeOf(u) = "client" THEN getBookingsByClient(bookings, u)
                ELSE getBookingsByProvider(bookings, u)
       IN  page' = [op |-> "my", caller |-> u, filters |-> NoFilters,
                    bookings |-> r, total |-> Len(r), hasMore |-> FALSE,
                    readTime |-> ReadTime(bookings), again |-> FALSE]
    /\ UNCHANGED <<balance, balance0, isActive, bookings, ledger, pc, req, result,
                   nextBookingId, nreq, ndirect, cancelOk>>
    /\ UNCHANGED svcVars

\* getBookingById: the document, or null
GetBookingById(b) ==
    /\ nread < MaxReads
    /\ nread' = nread + 1
    /\ LET r == IF bookings[b].status = "none" THEN << >> ELSE <<b>>
       IN  page' = [op |-> "byId", caller |-> "", filters |-> NoFilters,
                    bookings |-> r, total |-> Len(r), hasMore |-> FALSE,
                    readTime |-> ReadTime(bookings), again |-> FALSE]
    /\ UNCHANGED <<balance, balance0, isActive, bookings, ledger, pc, req, result,
                   nextBookingId, nreq, ndirect, cancelOk>>
    /\ UNCHANGED svcVars

\* ------------------------------------------- balanceService, read side
\* the timestamp field of a stored ledger record: both writers store
\* new Date().getTime(), a number; records are appended in time order, so the
\* position in the ledger stands for the time
StoredTimestamp(i) == [type |-> "number", value |-> i]

\* data.timestamp?.toDate(): a Firestore Timestamp converts to a Date, a
\* missing field is skipped, anything else has no toDate and the call throws
ToDate(timestamp) ==
    IF timestamp.type \in {"timestamp", "undefined"} THEN "date" ELSE "TypeError"

\* the positions of u's records, newest first
RECURSIVE NewestFirst(_)
NewestFirst(S) ==
    IF S = {} THEN << >>
    ELSE LET m == CHOOSE i \in S : \A j \in S : StoredTimestamp(j).value
                                                  <= StoredTimestamp(i).value
         IN  <<m>> \o NewestFirst(S \ {m})

\* getBalanceHistory: the query, then the mapping of every document; an
\* exception in the mapping is rethrown as 'Failed to retrieve balance history'
getBalanceHistory(led, userId, limit) ==
    LET docs == Take(NewestFirst({i \in 1..Len(led) : led[i].userId = userId}), limit)
    IN  IF \E k \in 1..Len(docs) : ToDate(StoredTimestamp(docs[k])) = "TypeError"
        THEN [ok |-> FALSE, transactions |-> << >>]
        ELSE [ok |-> TRUE, transactions |-> docs]

\* ------------------------------------------------- routes/bookings.ts
\* an error message is the sequence of its words; String.prototype.includes
\* is case-sensitive and looks for the phrase anywhere in the message
Includes(message, phrase) ==
    \E i \in 1..(Len(message) - Len(phrase) + 1) :
        SubSeq(message, i, i + Len(phrase) - 1) = phrase

\* the messages executeMultiUserOperation throws
MultiUserErrorMessage(kind) ==
    CASE kind = "not_found" -> <<"User", "id", "not", "found">>
      [] kind = "inactive" -> <<"User", "account", "id", "is", "inactive">>
      [] kind = "insufficient" -> <<"Insufficient", "balance", "for", "user", "id">>

\* the messages createBooking throws; cause is the refusal of the payment
CreateErrorMessage(kind, cause) ==
    CASE kind = "ClientNotFound" -> <<"Client", "not", "found">>
      [] kind = "ClientInactive" -> <<"Client", "account", "is", "inactive">>
      [] kind = "WrongRole" -> <<"Only", "clients", "can", "create", "bookings">>
      [] kind = "ServiceNotFound" -> <<"Service", "not", "found">>
      [] kind = "ServiceInactive" -> <<"Service", "is", "not", "active">>
      [] kind = "ProviderNotFound" -> <<"Service", "provider", "not", "found">>
      [] kind = "ProviderInactive" ->
            <<"Service", "provider", "account", "is", "inactive">>
      [] kind = "InsufficientFunds" ->
            <<"Insufficient", "balance", "to", "complete", "booking">>
      [] kind = "Invalid" ->
            <<"Service", "price", "must", "be", "greater", "than", "zero">>
      [] kind = "ServiceOrClientNotFound" ->
            <<"Service", "or", "client", "not", "found">>
      [] kind = "TransferFailed" ->
            <<"Balance", "operation", "failed:">> \o MultiUserErrorMessage(cause)
      [] kind = "StorageFailure" -> <<"Failed", "to", "create", "booking">>

\* the messages cancelBooking throws; cause is the refusal of the refund
CancelErrorMessage(kind, cause) ==
    CASE kind = "NotFound" -> <<"Booking", "not", "found">>
      [] kind = "Unauthorized" ->
            <<"You", "do", "not", "have", "permission", "to", "cancel", "this",
              "booking">>
      [] kind = "InvalidState" ->
            <<"Only", "confirmed", "bookings", "can", "be", "cancelled">>
      [] kind = "TransferFailed" ->
            <<"Refund", "operation", "failed:">> \o MultiUserErrorMessage(cause)
      [] kind = "StorageFailure" -> <<"Failed", "to", "cancel", "booking">>

\* POST /bookings, the catch block: the status is chosen by the message
PostBookingsStatus(message) ==
    IF Includes(message, <<"not", "found">>) THEN 404
    ELSE IF \/ Includes(message, <<"insufficient", "balance">>)
            \/ Includes(message, <<"not", "active">>)
            \/ Includes(message, <<"Only", "clients">>)
    THEN 400
    ELSE 500

\* PUT /bookings/:id/cancel, the catch block
CancelBookingStatus(message) ==
    IF Includes(message, <<"not", "found">>) THEN 404
    ELSE IF \/ Includes(message, <<"permission">>)
            \/ Includes(message, <<"do", "not", "have">>)
    THEN 403
    ELSE IF \/ Includes(message, <<"cannot", "be", "cancelled">>)
            \/ Includes(message, <<"Only", "confirmed">>)
    THEN 400
    ELSE 500

\* ------------------------------------------------------ serviceManager.ts
validateServiceOwnership(service, userId) == service.providerId = userId

\* the confirmed bookings of a service block its deletion
canDeleteService(s, bks) ==
    {b \in BookingIds : bks[b].serviceId = s /\ bks[b].status = "confirmed"} = {}

\* the fields an update request may carry; a field left out keeps its value
Prices == 1..MaxPrice
ServiceUpdates ==
    [price : Prices] \cup [isActive : BOOLEAN] \cup [price : Prices, isActive : BOOLEAN]
ApplyServiceUpdate(doc, updates) ==
    [doc EXCEPT !.price = IF "price" \in DOMAIN updates THEN updates.price ELSE @,
                !.isActive = IF "isActive" \in DOMAIN updates
                             THEN updates.isActive ELSE @]

\* updateService: the owner's update is written to the service document
UpdateService(s, updates, providerId) ==
    /\ nsvc < MaxServiceOps
    /\ nsvc' = nsvc + 1
    /\ LET existingService == getServiceById(services, s)
       IN  IF ~existingService.exists
           THEN /\ result' = [op |-> "updateService", kind |-> "NotFound", bookingId |-> 0]
                /\ UNCHANGED services
           ELSE IF ~validateServiceOwnership(existingService, providerId)
           THEN /\ result' = [op |-> "updateService", kind |-> "Forbidden", bookingId |-> 0]
                /\ UNCHANGED services
           ELSE /\ result' = [op |-> "updateService", kind |-> "ok", bookingId |-> 0]
                /\ services' = [services EXCEPT ![s] = ApplyServiceUpdate(@, updates)]
    /\ UNCHANGED <<balance, balance0, isActive, bookings, ledger, pc, req,
                   nextBookingId, nreq, ndirect, cancelOk, delPending>>
    /\ UNCHANGED readVars

\* deleteService, lines 345-382: the service is read, its owner checked and
\* the confirmed bookings of the service queried
DeleteCheck(s, providerId) ==
    /\ nsvc < MaxServiceOps
    /\ nsvc' = nsvc + 1
    /\ LET existingService == getServiceById(services, s)
       IN  IF ~existingService.exists
           THEN /\ result' = [op |-> "deleteService", kind |-> "NotFound", bookingId |-> 0]
                /\ UNCHANGED delPending
           ELSE IF ~validateServiceOwnership(existingService, providerId)
           THEN /\ result' = [op |-> "deleteService", kind |-> "Forbidden", bookingId |-> 0]
                /\ UNCHANGED delPending
           ELSE IF ~canDeleteService(s, bookings)
           THEN /\ result' = [op |-> "deleteService", kind |-> "Conflict", bookingId |-> 0]
                /\ UNCHANGED delPending
           ELSE /\ delPending' = delPending \cup {s}
                /\ UNCHANGED result
    /\ UNCHANGED <<balance, balance0, isActive, bookings, ledger, pc, req,
                   nextBookingId, nreq, ndirect, cancelOk, services>>
    /\ UNCHANGED readVars

\* deleteService, line 385: the document is deleted
DeleteCommit(s) ==
    /\ s \in delPending
    /\ delPending' = delPending \ {s}
    /\ services' = [services EXCEPT ![s] = NoService]
    /\ result' = [op |-> "deleteService", kind |-> "ok", bookingId |-> 0]
    /\ UNCHANGED <<balance, balance0, isActive, bookings, ledger, pc, req,
                   nextBookingId, nreq, ndirect, cancelOk, nsvc>>
    /\ UNCHANGED readVars

\* ------------------------------------------------------------------ specs
Amounts == (-MaxAmount..MaxAmount) \ {0}
Legs == [userId : Users, amount : 1..MaxAmount, type : {"debit", "credit"}]
LegsAny == [userId : UserIds, amount : 1..MaxAmount, type : {"debit", "credit"}]

\* the store before any request, the accounts' isActive flags left open
InitStore ==
    /\ balance \in [Users -> {0, MaxInitBalance}]
    /\ balance0 = balance
    /\ bookings = [b \in BookingIds |-> NoBooking]
    /\ ledger = << >>
    /\ pc = [w \in Workers |-> "idle"]
    /\ req = [w \in Workers |-> NoReq]
    /\ result = NoResult
    /\ nextBookingId = 1
    /\ nreq = 0
    /\ ndirect = 0
    /\ cancelOk = [b \in BookingIds |-> 0]
    /\ nsvc = 0
    /\ delPending = {}
    /\ page = NoPage
    /\ nread = 0

\* every account active
Init ==
    /\ isActive = [u \in Users |-> TRUE]
    /\ services = [s \in Services |-> Service0(s)]
    /\ InitStore

\* every account active and funded
InitFunded ==
    /\ Init
    /\ balance = [u \in Users |-> MaxInitBalance]

\* accounts that were deactivated before the first request
InitAccounts ==
    /\ isActive \in [Users -> BOOLEAN]
    /\ services = [s \in Services |-> Service0(s)]
    /\ InitStore

NextBooking ==
    \/ \E w \in Workers, c \in Users, s \in Services : CreateValidate(w, c, s)
    \/ \E w \in Workers : CreateLoad(w)
    \/ \E w \in Workers : CreateTransfer(w)
    \/ \E w \in Workers : CreateCommit(w)
    \/ \E w \in Workers : CreateCommitFail(w)
    \/ \E w \in Workers, b \in BookingIds, u \in Users, t \in {"client", "provider"} :
          CancelRead(w, b, u, t)
    \/ \E w \in Workers : CancelTransfer(w)
    \/ \E w \in Workers : CancelCommit(w)
    \/ \E w \in Workers : CancelCommitFail(w)

NextDirect ==
    \/ \E u \in Users, a \in Amounts, t \in {"debit", "credit"} :
          ExecuteAtomicOperation(u, a, t)
    \/ \E l1, l2 \in Legs : ExecuteMultiUserOperation(<<l1, l2>>)
    \/ \E u \in Users, a \in Amounts : UpdateBalance(u, a)
    \/ \E i \in 1..(2 * MaxRequests + MaxDirectOps) : RollbackOperation(i)

\* the balance operations called with any id, on any mix of active and
\* deactivated accounts
NextLedger ==
    \/ \E u \in UserIds, a \in Amounts, t \in {"debit", "credit"} :
          ExecuteAtomicOperation(u, a, t)
    \/ \E l1, l2 \in LegsAny : ExecuteMultiUserOperation(<<l1, l2>>)
    \/ \E u \in UserIds, a \in Amounts : UpdateBalance(u, a)

\* accounts and services of any standing before the first request: accounts
\* deactivated, services deactivated, services whose provider has no document
InitDirectory ==
    /\ isActive \in [Users -> BOOLEAN]
    /\ \E a \in [Services -> BOOLEAN], v \in [Services -> {"p1", "u0"}] :
          services = [s \in Services |->
                         [Service0(s) EXCEPT !.isActive = a[s], !.providerId = v[s]]]
    /\ InitStore

\* createBooking called with any ids
NextCreate ==
    \/ \E w \in Workers, c \in UserIds, s \in ServiceIds : CreateValidate(w, c, s)
    \/ \E w \in Workers : CreateLoad(w)
    \/ \E w \in Workers : CreateTransfer(w)
    \/ \E w \in Workers : CreateCommit(w)
    \/ \E w \in Workers : CreateCommitFail(w)

\* the provider's management of the catalogue
NextService ==
    \/ \E s \in ServiceIds, u \in ServiceUpdates, p \in Users : UpdateService(s, u, p)
    \/ \E s \in ServiceIds, p \in Users : DeleteCheck(s, p)
    \/ \E s \in Services : DeleteCommit(s)

NextCatalogue == NextBooking \/ NextService

\* the read operations
NextRead ==
    \/ \E u \in Users, q \in HistoryQueries : GetBookingHistory(u, q)
    \/ \E u \in Users : GetMyBookings(u)
    \/ \E b \in BookingIds : GetBookingById(b)

\* requests served one after another, and reads
NextReadStore ==
    \/ \E c \in Users, s \in Services : CreateValidate("w1", c, s)
    \/ CreateLoad("w1")
    \/ CreateTransfer("w1")
    \/ CreateCommit("w1")
    \/ \E b \in BookingIds, u \in Users, t \in {"client", "provider"} :
          CancelRead("w1", b, u, t)
    \/ CancelTransfer("w1")
    \/ CancelCommit("w1")
    \/ NextRead

Next == NextBooking \/ NextDirect

\* every operation of the balance and booking services
Spec == Init /\ [][Next]_vars

\* createBooking and cancelBooking alone
SpecBooking == Init /\ [][NextBooking]_vars

\* the read side over the stores that creates and cancels produce
SpecRead == InitFunded /\ [][NextReadStore]_vars

\* bookings while the provider changes the catalogue
SpecService == Init /\ [][NextCatalogue]_vars

\* createBooking alone, on accounts and services of any standing
SpecDirectory == InitDirectory /\ [][NextCreate]_vars

\* the balance operations alone, on accounts of any standing
SpecLedger == InitAccounts /\ [][NextLedger]_vars

\* the steps of worker w's request after its first one
WorkerStep(w) ==
    \/ CreateLoad(w) \/ CreateTransfer(w) \/ CreateTransferAbort(w)
    \/ CreateCommit(w) \/ CreateCommitFail(w)
    \/ CancelTransfer(w) \/ CancelTransferAbort(w)
    \/ CancelCommit(w) \/ CancelCommitFail(w)

\* the booking requests with balance transactions that can lose to each other
NextContend ==
    \/ NextBooking
    \/ \E w \in Workers : CreateTransferAbort(w)
    \/ \E w \in Workers : CancelTransferAbort(w)

\* bookings under contention; every awaited call of a request in flight
\* settles, so the request's next step is eventually taken
SpecContend ==
    /\ Init /\ [][NextContend]_vars
    /\ \A w \in Workers : WF_vars(WorkerStep(w))

\* bookings while accounts are being deactivated
NextDeactivate ==
    \/ NextBooking
    \/ \E u \in Users : DeactivateUser(u)

SpecDeactivate == Init /\ [][NextDeactivate]_vars
\* ------------------------------------------------- vocabulary of the claims
Quiescent == \A w \in Workers : pc[w] = "idle"

RECURSIVE AmountOf(_, _)
AmountOf(led, I) ==
    IF I = {} THEN 0
    ELSE LET i == CHOOSE j \in I : TRUE IN led[i].amount + AmountOf(led, I \ {i})

\* the ledger records of account u in direction t
EntriesOf(u, t) == {i \in 1..Len(ledger) : ledger[i].userId = u /\ ledger[i].type = t}
Debited(u) == AmountOf(ledger, EntriesOf(u, "debit"))
Credited(u) == AmountOf(ledger, EntriesOf(u, "credit"))

\* the payments and refunds recorded for booking b: the client-side records
PaymentsOf(b) == {i \in 1..Len(ledger) : /\ ledger[i].bookingId = b
                                         /\ ledger[i].type = "debit"
                                         /\ UserTypeOf(ledger[i].userId) = "client"}
RefundsOf(b) == {i \in 1..Len(ledger) : /\ ledger[i].bookingId = b
                                        /\ ledger[i].type = "credit"
                                        /\ UserTypeOf(ledger[i].userId) = "client"}

PaymentStep(w) == pc[w] = "c_transfer" /\ pc'[w] = "c_commit"
RefundStep(w) == pc[w] = "x_transfer" /\ pc'[w] = "x_commit"

\* what each step does to the balances
C1_MovesExactly ==
    /\ \A w \in Workers : PaymentStep(w) =>
          balance' = [balance EXCEPT
                         ![req[w].clientId] = @ - ServicePriceOf(req[w].serviceId),
                         ![req[w].providerId] = @ + ServicePriceOf(req[w].serviceId)]
    /\ \A w \in Workers : RefundStep(w) =>
          balance' = [balance EXCEPT
                         ![req[w].clientId] = @ + bookings[req[w].bookingId].amount,
                         ![req[w].providerId] = @ - bookings[req[w].bookingId].amount]
    /\ (\A w \in Workers : ~PaymentStep(w) /\ ~RefundStep(w)) => balance' = balance
\* C1: conservation. With createBooking and cancelBooking alone, the sum of
\* all balances at a quiescent state is the initial sum; the payment of a
\* create moves exactly the price from the client to the provider, the refund
\* of a cancel moves exactly the booking amount back, and no other step
\* changes the sum.
C1_Conservation ==
    /\ [](Quiescent => TotalBalance(balance) = TotalBalance(balance0))
    /\ [][C1_MovesExactly]_vars
\* a quiescent state after a create and a cancel of it have both succeeded
C1_Witness ==
    /\ Quiescent
    /\ \E b \in BookingIds : bookings[b].status = "cancelled" /\ cancelOk[b] = 1
    /\ balance = balance0 /\ Len(ledger) = 4

\* C2: no double-spend. A client never pays out more than it held at the start
\* plus what has been credited to it, so of two concurrent creates that the
\* balance covers only one of, at most one has its payment committed.
C2_NoDoubleSpend ==
    \A u \in Users : Debited(u) <= balance0[u] + Credited(u)
\* two requests only, both creates that passed the pre-check: one has paid,
\* the other's payment was refused inside the transfer transaction
C2_Witness ==
    /\ nreq = 2
    /\ \E w1, w2 \in Workers :
          /\ w1 # w2
          /\ pc[w1] = "c_commit"
          /\ pc[w2] = "idle"
          /\ result.op = "create" /\ result.kind = "TransferFailed"

\* C3: createBooking is one atomic unit: in every state the payment of booking
\* b is committed exactly when booking b's document exists.
C3_CreateAtomic ==
    \A b \in BookingIds : (PaymentsOf(b) # {}) <=> (bookings[b].status # "none")

\* C4: cancelBooking is one atomic unit: in every state the refund of booking
\* b is committed exactly when booking b is 'cancelled'.
C4_CancelAtomic ==
    \A b \in BookingIds : (RefundsOf(b) # {}) <=> (bookings[b].status = "cancelled")

\* C5: at most one refund per booking: whatever cancelBooking calls are made
\* on booking b, the client is credited at most once and at most one call
\* returns success.
C5_OneRefund ==
    \A b \in BookingIds : Cardinality(RefundsOf(b)) <= 1 /\ cancelOk[b] <= 1

C7_FailedPaymentStep ==
    \A w \in Workers :
        (pc[w] = "c_transfer" /\ pc'[w] = "idle") =>
            /\ result' = [op |-> "create", kind |-> "TransferFailed",
                           bookingId |-> req[w].bookingId]
            /\ UNCHANGED <<balance, ledger, bookings>>
\* C7: a create whose payment fails after the pre-check passed returns an
\* error; no booking document and no ledger record carries its booking id,
\* and the failing payment changes no balance.
C7_FailedPayment ==
    /\ []((result.op = "create" /\ result.kind = "TransferFailed") =>
            /\ bookings[result.bookingId].status = "none"
            /\ \A i \in 1..Len(ledger) : ledger[i].bookingId # result.bookingId)
    /\ [][C7_FailedPaymentStep]_vars
\* a create refused at the payment, the other request having spent the funds
C7_Witness ==
    /\ result.op = "create" /\ result.kind = "TransferFailed"
    /\ Len(ledger) = 2 /\ nreq = 2

\* the caller is a party to booking b in the role it calls with
IsParty(b, u, t) ==
    \/ t = "client" /\ bookings[b].clientId = u
    \/ t = "provider" /\ bookings[b].providerId = u

\* C8: a cancelBooking call by the booking's own client or provider on an
\* already cancelled booking fails with the invalid-state error, not with the
\* authorization error a stranger gets.
C8_SecondCancelInvalidState ==
    [][\A w \in Workers, b \in BookingIds, u \in Users, t \in {"client", "provider"} :
          (CancelRead(w, b, u, t) /\ bookings[b].status = "cancelled" /\ IsParty(b, u, t))
              => result'.kind = "InvalidState"]_vars

\* C9: a createBooking call of an active client whose balance is below the
\* price fails with the insufficient-balance reason at once: no booking
\* document, no ledger record, no balance change.
C9_InsufficientRejected ==
    [][\A w \in Workers, c \in Users, s \in Services :
          (/\ CreateValidate(w, c, s)
           /\ UserTypeOf(c) = "client" /\ isActive[c]
           /\ isActive[ServiceProviderOf(s)]
           /\ balance[c] < ServicePriceOf(s))
              => /\ result' = [op |-> "create", kind |-> "InsufficientFunds",
                               bookingId |-> 0]
                 /\ pc'[w] = "idle"
                 /\ UNCHANGED <<balance, ledger, bookings, nextBookingId>>]_vars
\* a create refused for insufficient balance while the store is untouched
C9_Witness ==
    /\ result.op = "create" /\ result.kind = "InsufficientFunds"
    /\ ledger = << >> /\ balance = balance0
    /\ \A b \in BookingIds : bookings[b].status = "none"

\* the status changes a single step may make
C10_Step ==
    \A b \in BookingIds :
        /\ bookings[b].status = "none" /\ bookings'[b].status # "none" =>
              /\ bookings'[b].status = "confirmed"
              /\ \E w \in Workers : pc[w] = "c_commit" /\ req[w].bookingId = b
                                    /\ pc'[w] = "idle"
        /\ bookings[b].status = "confirmed" /\ bookings'[b].status # "confirmed" =>
              /\ bookings'[b].status = "cancelled"
              /\ \E w \in Workers : pc[w] = "x_commit" /\ req[w].bookingId = b
                                    /\ pc'[w] = "idle"
        /\ bookings[b].status = "cancelled" => bookings'[b].status = "cancelled"
\* C10: booking status is monotone: a document appears only at the commit of
\* a create and then is 'confirmed'; its status changes only at the commit of
\* a cancel, to 'cancelled'; a cancelled booking stays cancelled and no
\* document is ever deleted.
C10_StatusMonotone == [][C10_Step]_vars
\* a cancelled booking next to a later, confirmed one
C10_Witness ==
    \E b1, b2 \in BookingIds :
        bookings[b1].status = "cancelled" /\ bookings[b2].status = "confirmed"

\* the step in which a caller that is no party to a confirmed booking is denied
C11_DeniedStep ==
    \A w \in Workers, b \in BookingIds, u \in Users, t \in {"client", "provider"} :
        (CancelRead(w, b, u, t) /\ bookings[b].status = "confirmed" /\ ~IsParty(b, u, t))
            => /\ result' = [op |-> "cancel", kind |-> "Unauthorized", bookingId |-> b]
               /\ pc'[w] = "idle"
               /\ UNCHANGED <<bookings, balance, ledger>>
\* C11: cancel authorization. A cancelBooking call gets past the permission
\* check only when its caller is the booking's client calling as client or the
\* booking's provider calling as provider; any other caller of a confirmed
\* booking is denied and the booking, the balances and the ledger stay as
\* they were.
C11_CancelAuthorization ==
    /\ [](\A w \in Workers : pc[w] \in {"x_transfer", "x_commit"} =>
             IsParty(req[w].bookingId, req[w].userId, req[w].userType))
    /\ [][C11_DeniedStep]_vars
\* a stranger has just been denied and the booking is still confirmed
C11_Witness ==
    /\ result.op = "cancel" /\ result.kind = "Unauthorized"
    /\ bookings[result.bookingId].status = "confirmed"

\* a leg that executeMultiUserOperation must refuse
LegFails(l) ==
    \/ l.userId \notin Users
    \/ ~isActive[l.userId]
    \/ l.type = "debit" /\ l.amount > balance[l.userId]
\* what one call of executeMultiUserOperation does to the store
C12_Step ==
    \A l1, l2 \in LegsAny :
        ExecuteMultiUserOperation(<<l1, l2>>) =>
            LET ops == <<l1, l2>>
                n == Len(ledger)
            IN  IF \E i \in 1..2 : LegFails(ops[i])
                THEN /\ balance' = balance
                     /\ ledger' = ledger
                     /\ result'.op = "multi" /\ result'.kind # "ok"
                ELSE /\ result' = [op |-> "multi", kind |-> "ok", bookingId |-> 0]
                     /\ Len(ledger') = n + 2
                     /\ SubSeq(ledger', 1, n) = ledger
                     /\ \A i \in 1..2 :
                           /\ ledger'[n + i].userId = ops[i].userId
                           /\ ledger'[n + i].amount = ops[i].amount
                           /\ ledger'[n + i].type = ops[i].type
                     /\ \A u \in Users :
                           IF \E i \in 1..2 : ops[i].userId = u
                           THEN \E i \in 1..2 :
                                   /\ ops[i].userId = u
                                   /\ balance'[u] = LegNewBalance(balance, ops[i])
                           ELSE balance'[u] = balance[u]
\* C12: executeMultiUserOperation is all-or-nothing. If any leg names a missing
\* or inactive account or debits more than the account holds, the call changes
\* no balance, writes no ledger record and returns failure; otherwise it
\* returns success with one ledger record per leg appended and every named
\* account updated, all in the same step.
C12_AllOrNothing == [][C12_Step]_vars
\* a transfer refused for a leg on a deactivated account, nothing written
C12_Witness ==
    /\ result.op = "multi" /\ result.kind = "inactive"
    /\ ledger = << >> /\ balance = balance0
    /\ \E u \in Users : ~isActive[u] /\ balance[u] > 0

\* the ledger records carrying booking id b, and those of them on account u in
\* direction t for amount a
RecordsOf(b) == {i \in 1..Len(ledger) : ledger[i].bookingId = b}
RecordsLike(b, u, t, a) ==
    {i \in RecordsOf(b) : ledger[i].userId = u /\ ledger[i].type = t
                          /\ ledger[i].amount = a}

\* C13: four-entry reconciliation set. At every quiescent state a confirmed
\* booking has exactly two ledger records with its id (client debit and
\* provider credit of the booking amount), a cancelled booking exactly four
\* (those two, a client credit and a provider debit of the same amount), and
\* no record carries the id of a booking without a document.
C13_FourEntrySet ==
    Quiescent =>
        \A b \in BookingIds :
            LET bk == bookings[b]
                paid == /\ Cardinality(RecordsLike(b, bk.clientId, "debit", bk.amount)) = 1
                        /\ Cardinality(RecordsLike(b, bk.providerId, "credit", bk.amount)) = 1
                back == /\ Cardinality(RecordsLike(b, bk.clientId, "credit", bk.amount)) = 1
                        /\ Cardinality(RecordsLike(b, bk.providerId, "debit", bk.amount)) = 1
            IN  /\ bk.status = "confirmed" => Cardinality(RecordsOf(b)) = 2 /\ paid
                /\ bk.status = "cancelled" => Cardinality(RecordsOf(b)) = 4 /\ paid /\ back
                /\ bk.status = "none" => RecordsOf(b) = {}

\* the ledger records a step appends match the balances it commits
C14_Step ==
    \A i \in (Len(ledger) + 1)..Len(ledger') :
        LET e == ledger'[i]
        IN  /\ e.balanceBefore = balance[e.userId]
            /\ e.balanceAfter = balance'[e.userId]
            /\ e.balanceAfter = IF e.type = "debit"
                                THEN e.balanceBefore - e.amount
                                ELSE e.balanceBefore + e.amount
\* C14: ledger records match committed balances. Every record written by
\* executeAtomicOperation or executeMultiUserOperation has balanceBefore equal
\* to the account's committed balance just before the writing transaction and
\* balanceAfter equal to the committed balance just after it, the two differing
\* by the amount in the record's direction.
C14_EntriesMatchBalances == [][C14_Step]_vars

\* a step that changes a balance appends a ledger record for that account
C15_Step ==
    \A u \in Users :
        balance'[u] # balance[u] =>
            \E i \in (Len(ledger) + 1)..Len(ledger') : ledger'[i].userId = u
\* C15: every balance is reconstructable from the ledger. At every quiescent
\* state each account's balance is its initial balance plus its credit records
\* minus its debit records, and no step changes a balance without appending a
\* ledger record for it.
C15_Reconstructable ==
    /\ [](Quiescent =>
            \A u \in Users : balance[u] = balance0[u] + Credited(u) - Debited(u))
    /\ [][C15_Step]_vars

\* C16: the ledger is append-only. No step of any operation, cancelBooking and
\* rollbackOperation included, changes or removes a ledger record: after every
\* step the ledger is the ledger before it, possibly with new records at the
\* end.
C16_AppendOnly ==
    [][/\ Len(ledger') >= Len(ledger)
       /\ SubSeq(ledger', 1, Len(ledger)) = ledger]_vars
\* a rollback has compensated a booking's record with a new record
C16_Witness ==
    /\ result.op = "rollback" /\ result.kind = "ok"
    /\ \E i, j \in 1..Len(ledger) :
          /\ i < j /\ j = Len(ledger)
          /\ ledger[i].bookingId = result.bookingId
          /\ ledger[j].bookingId = result.bookingId
          /\ ledger[j].userId = ledger[i].userId
          /\ ledger[j].type # ledger[i].type
          /\ ledger[j].balanceBefore = ledger[i].balanceAfter

\* the two ledger records of a payment of p from c to v for booking b, on the
\* balances bal
PaymentRecords(bal, b, c, v, p) ==
    << [userId |-> c, bookingId |-> b, amount |-> p, type |-> "debit",
        balanceBefore |-> bal[c], balanceAfter |-> bal[c] - p],
       [userId |-> v, bookingId |-> b, amount |-> p, type |-> "credit",
        balanceBefore |-> bal[v], balanceAfter |-> bal[v] + p] >>
\* the store after createBooking(c, s) has run alone from the initial store
C17_RunAlone ==
    (nreq = 1 /\ result.op = "create" /\ result.kind = "ok") =>
        \E c \in Users, s \in Services :
            LET b == result.bookingId
                p == ServicePriceOf(s)
                v == ServiceProviderOf(s)
            IN  /\ bookings = [x \in BookingIds |->
                      IF x = b
                      THEN [status |-> "confirmed", clientId |-> c, providerId |-> v,
                            serviceId |-> s, amount |-> p]
                      ELSE NoBooking]
                /\ balance = [balance0 EXCEPT ![c] = @ - p, ![v] = @ + p]
                /\ ledger = PaymentRecords(balance0, b, c, v, p)
\* what each step of a successful createBooking does to the store
C17_Steps ==
    \A w \in Workers :
        LET r == req[w]
        IN  /\ (pc[w] = "idle" /\ pc'[w] = "c_load") =>
                  UNCHANGED <<balance, ledger, bookings>>
            /\ (pc[w] = "c_load" /\ pc'[w] = "c_transfer") =>
                  /\ req'[w].amount = ServicePriceOf(r.serviceId)
                  /\ req'[w].providerId = ServiceProviderOf(r.serviceId)
                  /\ req'[w].clientId = r.clientId
                  /\ bookings[req'[w].bookingId].status = "none"
                  /\ UNCHANGED <<balance, ledger, bookings>>
            /\ PaymentStep(w) =>
                  /\ balance' = [balance EXCEPT ![r.clientId] = @ - r.amount,
                                                ![r.providerId] = @ + r.amount]
                  /\ ledger' = ledger \o PaymentRecords(balance, r.bookingId,
                                             r.clientId, r.providerId, r.amount)
                  /\ bookings' = bookings
            /\ (pc[w] = "c_commit" /\ pc'[w] = "idle" /\ result'.kind = "ok") =>
                  /\ bookings' = [bookings EXCEPT ![r.bookingId] =
                        [status |-> "confirmed", clientId |-> r.clientId,
                         providerId |-> r.providerId, serviceId |-> r.serviceId,
                         amount |-> r.amount]]
                  /\ UNCHANGED <<balance, ledger>>
\* C17: postcondition of a successful createBooking(client, service) run in
\* isolation with price p: exactly one new booking exists, 'confirmed', with
\* amount p, the client and the service's provider; the client's balance fell
\* by p and the provider's rose by p; exactly two ledger records were added, a
\* client debit and a provider credit of p with balanceBefore and balanceAfter
\* the old and new balances; nothing else changed.
C17_CreatePostcondition ==
    /\ []C17_RunAlone
    /\ [][C17_Steps]_vars
\* the only request so far was a create and it has succeeded
C17_Witness ==
    /\ nreq = 1 /\ result.op = "create" /\ result.kind = "ok"
    /\ Len(ledger) = 2
    /\ bookings[result.bookingId].status = "confirmed"

\* the two ledger records of a refund of p from v to c for booking b, on the
\* balances bal
RefundRecords(bal, b, c, v, p) ==
    << [userId |-> c, bookingId |-> b, amount |-> p, type |-> "credit",
        balanceBefore |-> bal[c], balanceAfter |-> bal[c] + p],
       [userId |-> v, bookingId |-> b, amount |-> p, type |-> "debit",
        balanceBefore |-> bal[v], balanceAfter |-> bal[v] - p] >>
\* the store after a create and a cancel of it, the only two requests
C18_RunAlone ==
    (nreq = 2 /\ result.op = "cancel" /\ result.kind = "ok") =>
        LET b == result.bookingId
            bk == bookings[b]
        IN  /\ bk.status = "cancelled"
            /\ balance = balance0
            /\ Len(ledger) = 4
            /\ SubSeq(ledger, 3, 4) =
                  RefundRecords([balance0 EXCEPT ![bk.clientId] = @ - bk.amount,
                                                 ![bk.providerId] = @ + bk.amount],
                                b, bk.clientId, bk.providerId, bk.amount)
\* what each step of a successful cancelBooking does to the store
C18_Steps ==
    \A w \in Workers :
        LET r == req[w]
            bk == bookings[r.bookingId]
        IN  /\ RefundStep(w) =>
                  /\ balance' = [balance EXCEPT ![bk.clientId] = @ + bk.amount,
                                                ![bk.providerId] = @ - bk.amount]
                  /\ ledger' = ledger \o RefundRecords(balance, r.bookingId,
                                             bk.clientId, bk.providerId, bk.amount)
                  /\ bookings' = bookings
            /\ (pc[w] = "x_commit" /\ pc'[w] = "idle" /\ result'.kind = "ok") =>
                  /\ bookings' = [bookings EXCEPT ![r.bookingId].status = "cancelled"]
                  /\ UNCHANGED <<balance, ledger>>
\* C18: create-then-cancel round trip. A successful createBooking followed by
\* a successful cancelBooking of that booking by its client or its provider,
\* with nothing else on the two accounts in between, returns both balances to
\* their values before the create, leaves the booking 'cancelled' and adds two
\* ledger records of the reversal.
C18_RoundTrip ==
    /\ []C18_RunAlone
    /\ [][C18_Steps]_vars
\* a create and then a cancel of it, both successful, and nothing else
C18_Witness ==
    /\ nreq = 2 /\ result.op = "cancel" /\ result.kind = "ok"
    /\ \E b \in BookingIds :
          /\ bookings[b].status = "cancelled"
          /\ bookings[b].amount > 0
          /\ ledger[4].userId = bookings[b].providerId
    /\ balance = balance0

\* a stored amount stays, and a refund moves exactly the stored amount
C19_Step ==
    /\ \A b \in BookingIds :
          bookings[b].status # "none" => bookings'[b].amount = bookings[b].amount
    /\ \A w \in Workers :
          RefundStep(w) =>
              LET b == req[w].bookingId
                  bk == bookings[b]
              IN  /\ balance' = [balance EXCEPT ![bk.clientId] = @ + bk.amount,
                                                ![bk.providerId] = @ - bk.amount]
                  /\ ledger' = ledger \o RefundRecords(balance, b, bk.clientId,
                                             bk.providerId, bk.amount)
\* C19: the booking amount is a snapshot and the refund is the full original
\* amount. A booking's stored amount never changes after creation, and
\* cancelBooking credits the client and debits the provider exactly that
\* amount, whatever update of the service's price, deactivation or deletion of
\* the service happened between create and cancel.
C19_AmountSnapshot == [][C19_Step]_vars
\* the service changed before the create returned; the cancel that followed
\* has refunded the stored amount, which is not what the service costs now
C19_Witness ==
    \E w \in Workers :
        LET b == req[w].bookingId
        IN  /\ pc[w] = "x_commit"
            /\ result = [op |-> "create", kind |-> "ok", bookingId |-> b]
            /\ getServiceById(services, bookings[b].serviceId).price # bookings[b].amount
            /\ RecordsLike(b, bookings[b].clientId, "credit", bookings[b].amount) # {}

\* the reasons for which createBooking(c, s) must be refused in this state
RefusalCauses(c, s) ==
    LET service == getServiceById(services, s)
        v == service.providerId
    IN  (IF c \notin Users THEN {"ClientNotFound"} ELSE {})
        \cup (IF c \in Users /\ ~isActive[c] THEN {"ClientInactive"} ELSE {})
        \cup (IF c \in Users /\ UserTypeOf(c) # "client" THEN {"WrongRole"} ELSE {})
        \cup (IF ~service.exists THEN {"ServiceNotFound"} ELSE {})
        \cup (IF service.exists /\ ~service.isActive THEN {"ServiceInactive"} ELSE {})
        \cup (IF service.exists /\ v \notin Users THEN {"ProviderNotFound"} ELSE {})
        \cup (IF service.exists /\ v \in Users /\ ~isActive[v]
              THEN {"ProviderInactive"} ELSE {})
        \cup (IF c \in Users /\ service.exists /\ balance[c] < service.price
              THEN {"InsufficientFunds"} ELSE {})
\* a create that must be refused is refused at the checks, for one of its causes
C20_Step ==
    \A w \in Workers, c \in UserIds, s \in ServiceIds :
        (CreateValidate(w, c, s) /\ RefusalCauses(c, s) # {}) =>
            /\ result'.op = "create"
            /\ result'.kind \in RefusalCauses(c, s)
            /\ pc'[w] = "idle"
            /\ UNCHANGED <<balance, ledger, bookings, nextBookingId>>
\* C20: createBooking validation failures abort before any write. If the
\* client is missing, inactive or not a client, the service is missing or
\* inactive, the provider is missing or inactive, or the client's balance is
\* below the price, createBooking fails with a reason naming one of the causes
\* that hold, and no booking document, balance or ledger record is created or
\* changed.
C20_ValidationAborts == [][C20_Step]_vars
\* a create refused because the service's provider has no account
C20_Witness ==
    /\ result.op = "create" /\ result.kind = "ProviderNotFound"
    /\ ledger = << >> /\ balance = balance0
    /\ \A b \in BookingIds : bookings[b].status = "none"

\* a cancelBooking call that fails at its checks or at its refund writes nothing
C21_Step ==
    /\ \A w \in Workers, b \in BookingIds, u \in Users, t \in {"client", "provider"} :
          (/\ CancelRead(w, b, u, t)
           /\ \/ bookings[b].status # "confirmed"
              \/ ~IsParty(b, u, t))
              => /\ pc'[w] = "idle"
                 /\ result'.op = "cancel"
                 /\ result'.kind \in {"NotFound", "Unauthorized", "InvalidState"}
                 /\ UNCHANGED <<balance, ledger, bookings>>
    /\ \A w \in Workers :
          (pc[w] = "x_transfer" /\ pc'[w] = "idle")
              => /\ result' = [op |-> "cancel", kind |-> "TransferFailed",
                               bookingId |-> req[w].bookingId]
                 /\ UNCHANGED <<balance, ledger, bookings>>
\* C21: a cancelBooking call that fails because the booking is missing, the
\* caller is no party, the booking is not confirmed or the refund transfer is
\* refused leaves every balance, the ledger and the booking document exactly
\* as they were before the call.
C21_FailedCancelNoEffect == [][C21_Step]_vars
\* a cancel whose refund was refused: the provider no longer holds the amount
C21_Witness ==
    /\ result.op = "cancel" /\ result.kind = "TransferFailed"
    /\ bookings[result.bookingId].status # "none"
    /\ balance[bookings[result.bookingId].providerId] < bookings[result.bookingId].amount

\* the bookings that satisfy every predicate of the filters f
MatchingBookings(f) ==
    {b \in BookingIds :
        /\ MatchesQuery(bookings, b, f)
        /\ f.minAmount = NoAmount \/ bookings[b].amount >= f.minAmount
        /\ f.maxAmount = NoAmount \/ bookings[b].amount <= f.maxAmount}
\* the page of getBookingHistory at offset o, as a set
PageAt(f, o) == IdsOf(getBookingHistory(bookings, [f EXCEPT !.offset = o]).bookings)

\* C22: pagination of getBookingHistory. With fixed filters and sort and no
\* write in between, the pages at offsets 0, limit, 2*limit, ... are pairwise
\* disjoint and their union is the set of bookings matching the filters.
C22_PagesPartition ==
    \A u \in Users, l \in 1..MaxLimit :
        LET f == HistoryRouteFilters(u, [NoFilters EXCEPT !.limit = l])
            K == 0..MaxBookings
        IN  /\ \A j, k \in K : j # k => PageAt(f, j * l) \cap PageAt(f, k * l) = {}
            /\ UNION {PageAt(f, k * l) : k \in K} = MatchingBookings(f)

\* C23: getBookingHistory reports a total count: the 'total' of the result is
\* the number of bookings matching the filter predicates, whatever limit and
\* offset are.
C23_TotalIsMatchCount ==
    \A u \in Users, q \in HistoryQueries :
        LET f == HistoryRouteFilters(u, q)
        IN  getBookingHistory(bookings, f).total = Cardinality(MatchingBookings(f))


\* C24: the read side is free of side effects and repeatable. A read changes
\* no booking, balance, ledger, account or service, and a getBookingHistory
\* that repeats the read before it, with the same filters and no write to the
\* bookings in between, returns the same page, total and has-more flag.
C24_Step ==
    nread' # nread =>
        /\ UNCHANGED <<balance, isActive, bookings, ledger, services, nextBookingId>>
        /\ page'.again => /\ page'.bookings = page.bookings
                          /\ page'.total = page.total
                          /\ page'.hasMore = page.hasMore
OwnBookings(u) ==
    [b \in BookingIds |-> IF bookings[b].clientId = u \/ bookings[b].providerId = u
                          THEN bookings[b] ELSE NoBooking]
\* u is the party of booking b that its type says
IsOwnBooking(u, b) ==
    IF UserTypeOf(u) = "client" THEN bookings[b].clientId = u
    ELSE bookings[b].providerId = u

\* C25: read isolation between users. Every booking that GET /bookings/my or
\* GET /bookings/history returns to the caller u has clientId = u when u is a
\* client and providerId = u when u is a provider, whatever the query string
\* holds, and the response is the one the same request gets when the bookings
\* u is no party of are absent.
C25_ReadIsolation ==
    /\ page.op \in {"my", "history"} =>
          \A b \in IdsOf(page.bookings) : IsOwnBooking(page.caller, b)
    /\ \A u \in Users :
          /\ \A q \in HistoryQueries :
                getBookingHistory(bookings, HistoryRouteFilters(u, q))
                    = getBookingHistory(OwnBookings(u), HistoryRouteFilters(u, q))
          /\ getBookingsByClient(bookings, u) = getBookingsByClient(OwnBookings(u), u)
          /\ getBookingsByProvider(bookings, u) = getBookingsByProvider(OwnBookings(u), u)
\* a client read its history and got a booking of its own while another
\* client has a booking too
C25_Witness ==
    /\ page.op = "history" /\ page.caller = "c1" /\ nread = 1
    /\ page.bookings # << >>
    /\ \E b \in BookingIds : bookings[b].clientId = "c2"


\* C26: a service with active bookings is never deleted. In every reachable
\* state, also when a deleteService of the owning provider runs beside a
\* createBooking of the same service, every confirmed booking references a
\* service document that still exists.
C26_ConfirmedServiceExists ==
    \A b \in BookingIds :
        bookings[b].status = "confirmed" => services[bookings[b].serviceId].exists


\* C27: deactivated accounts are never adjusted. No balance operation
\* (executeAtomicOperation, executeMultiUserOperation, updateBalance) changes
\* the balance of a deactivated account: an operation that targets one fails
\* and leaves the balance as it was.
C27_Step == \A u \in Users : ~isActive[u] => balance'[u] = balance[u]
C27_InactiveUntouched == [][C27_Step]_vars


\* C28: createBooking reads the service and both users in the atomic unit
\* that commits the booking. At the commit of a booking its amount is the
\* price the service has at that moment, the service exists and is active, and
\* the client and the provider are active, also when the service is updated,
\* deactivated or deleted between validation and commit.
C28_Step ==
    \A b \in BookingIds :
        (bookings[b].status = "none" /\ bookings'[b].status = "confirmed") =>
            LET service == getServiceById(services, bookings'[b].serviceId)
            IN  /\ service.exists /\ service.isActive
                /\ bookings'[b].amount = service.price
                /\ isActive[bookings'[b].clientId]
                /\ isActive[bookings'[b].providerId]
C28_CommitSeesCurrentService == [][C28_Step]_vars


\* why the leg l alone is refused
LegReason(l) ==
    IF l.userId \notin Users THEN "not_found"
    ELSE IF ~isActive[l.userId] THEN "inactive"
    ELSE "insufficient"

\* C29: deterministic error attribution. When executeMultiUserOperation fails,
\* the one error it reports names the first leg, in the order the legs were
\* given, that fails, with that leg's reason; for the payment legs the client
\* debit is attributed before the provider credit.
C29_FirstFailingLeg ==
    \A l1, l2 \in LegsAny :
        LET ops == <<l1, l2>>
            e == MultiUserError(balance, isActive, ops)
            failing == {i \in 1..2 : LegFails(ops[i])}
        IN  e.kind # "ok" =>
                /\ e.leg = MinOf(failing)
                /\ e.kind = LegReason(ops[MinOf(failing)])


\* C30: leg amounts are strictly positive. The payment and refund leg
\* constructors reject a zero or negative amount, so that no leg they hand out
\* has an amount <= 0, and no ledger record of a booking has an amount <= 0.
C30_PositiveLegs ==
    /\ \A c, p \in Users, a \in (-MaxAmount)..MaxAmount :
          \A ops \in {createBookingPaymentOperations(c, p, a),
                      createBookingRefundOperations(c, p, a)} :
              \A i \in 1..Len(ops) : ops[i].amount > 0
    /\ \A i \in 1..Len(ledger) : ledger[i].bookingId # 0 => ledger[i].amount > 0


\* C31: the boundary of the sufficiency check. A createBooking of a client
\* whose balance is at least the price passes the checks and its payment
\* succeeds, a balance equal to the price ends at exactly 0, and a balance
\* below the price is refused; executeAtomicOperation and
\* executeMultiUserOperation accept a debit up to the whole balance and
\* reject any larger debit.
C31_Step ==
    /\ \A w \in Workers, c \in Users, s \in Services :
          (/\ CreateValidate(w, c, s)
           /\ UserTypeOf(c) = "client" /\ isActive[c]
           /\ services[s].exists /\ services[s].isActive
           /\ isActive[services[s].providerId])
          => (pc'[w] = "c_load" <=> balance[c] >= services[s].price)
    /\ \A w \in Workers :
          (CreateTransfer(w) /\ isActive[req[w].clientId] /\ isActive[req[w].providerId])
          => /\ pc'[w] = "c_commit" <=> balance[req[w].clientId] >= req[w].amount
             /\ balance[req[w].clientId] = req[w].amount => balance'[req[w].clientId] = 0
    /\ \A u \in Users, a \in Amounts :
          (ExecuteAtomicOperation(u, a, "debit") /\ isActive[u])
          => /\ result'.kind = "ok" <=> Abs(a) <= balance[u]
             /\ balance'[u] = IF Abs(a) <= balance[u] THEN balance[u] - Abs(a)
                              ELSE balance[u]
    /\ \A l1, l2 \in Legs :
          (/\ ExecuteMultiUserOperation(<<l1, l2>>)
           /\ isActive[l1.userId] /\ isActive[l2.userId] /\ l1.userId # l2.userId)
          => (result'.kind = "ok" <=>
                 \A l \in {l1, l2} : l.type = "debit" => l.amount <= balance[l.userId])
C31_SufficiencyBoundary == [][C31_Step]_vars
\* a booking paid with the client's whole balance: the client is left with 0
C31_Witness ==
    \E b \in BookingIds :
        /\ bookings[b].status = "confirmed"
        /\ balance0[bookings[b].clientId] = bookings[b].amount
        /\ balance[bookings[b].clientId] = 0
        /\ Len(ledger) = 2


\* why executeMultiUserOperation refuses the legs ops in the current state
TransferCause(ops) == MultiUserError(balance, isActive, ops).kind
\* the status the claim assigns to a refusal of createBooking
ExpectedCreateStatus(kind) ==
    IF kind \in {"ClientNotFound", "ServiceNotFound", "ProviderNotFound",
                 "ServiceOrClientNotFound"} THEN 404
    ELSE 400

\* C32: business-rule failures stay distinguishable at the request layer.
\* POST /bookings answers every not-found refusal of createBooking with 404
\* and every insufficient-balance, inactive-account, inactive-service and
\* wrong-role refusal with 400; PUT /bookings/:id/cancel answers a missing
\* booking with 404, a caller that is no party with 403 and a booking that is
\* not confirmed with 400; no business-rule refusal is answered with 500.
C32_Step ==
    /\ \A w \in Workers, c \in Users, s \in Services :
          (CreateValidate(w, c, s) /\ pc'[w] = "idle")
          => PostBookingsStatus(CreateErrorMessage(result'.kind, "none"))
                = ExpectedCreateStatus(result'.kind)
    /\ \A w \in Workers :
          (CreateLoad(w) /\ pc'[w] = "idle")
          => PostBookingsStatus(CreateErrorMessage(result'.kind, "none")) = 404
    /\ \A w \in Workers :
          (CreateTransfer(w) /\ pc'[w] = "idle")
          => PostBookingsStatus(CreateErrorMessage(result'.kind,
                 TransferCause(createBookingPaymentOperations(
                     req[w].clientId, req[w].providerId, req[w].amount)))) = 400
    /\ \A w \in Workers, b \in BookingIds, u \in Users, t \in {"client", "provider"} :
          (CancelRead(w, b, u, t) /\ pc'[w] = "idle")
          => CancelBookingStatus(CancelErrorMessage(result'.kind, "none"))
                = IF bookings[b].status = "none" THEN 404
                  ELSE IF ~(\/ t = "client" /\ bookings[b].clientId = u
                            \/ t = "provider" /\ bookings[b].providerId = u) THEN 403
                  ELSE 400
    /\ \A w \in Workers :
          (CancelTransfer(w) /\ pc'[w] = "idle")
          => CancelBookingStatus(CancelErrorMessage(result'.kind,
                 TransferCause(createBookingRefundOperations(
                     req[w].clientId, req[w].providerId, req[w].amount)))) # 500
C32_StatusByFailure == [][C32_Step]_vars


\* C33: rollbackOperation is a compensating operation. When it returns true
\* the record's account has had the inverse of the record applied, exactly one
\* new ledger record of the opposite direction has been appended and every
\* record written before is unchanged; it returns false, with no balance and
\* no ledger record changed, when the record is missing, the account is
\* inactive or the compensating debit exceeds the balance.
C33_Step ==
    \A i \in 1..(2 * MaxRequests + MaxDirectOps) :
        RollbackOperation(i) =>
            LET n == Len(ledger)
                refused == \/ i \notin 1..n
                           \/ ~isActive[ledger[i].userId]
                           \/ /\ ledger[i].type = "credit"
                              /\ ledger[i].amount > balance[ledger[i].userId]
            IN  /\ result'.op = "rollback"
                /\ result'.kind = "ok" <=> ~refused
                /\ IF refused
                   THEN balance' = balance /\ ledger' = ledger
                   ELSE /\ Len(ledger') = n + 1
                        /\ SubSeq(ledger', 1, n) = ledger
                        /\ ledger'[n + 1].userId = ledger[i].userId
                        /\ ledger'[n + 1].amount = ledger[i].amount
                        /\ ledger'[n + 1].type # ledger[i].type
                        /\ balance' = [balance EXCEPT ![ledger[i].userId] =
                              IF ledger[i].type = "debit" THEN @ + ledger[i].amount
                              ELSE @ - ledger[i].amount]
C34_RecentHistory ==
    \A u \in Users, l \in 1..MaxLimit :
        LET r == getBalanceHistory(ledger, u, l)
            own == {i \in 1..Len(ledger) : ledger[i].userId = u}
            got == IdsOf(r.transactions)
        IN  /\ r.ok
            /\ Len(r.transactions) <= l
            /\ got \subseteq own
            /\ Cardinality(got) = IF Cardinality(own) < l THEN Cardinality(own) ELSE l
            /\ \A i \in got, j \in own \ got : j < i
            /\ \A k \in 1..(Len(r.transactions) - 1) :
                  r.transactions[k] > r.transactions[k + 1]


\* C35: every createBooking and cancelBooking invocation eventually returns,
\* with the booking or with an error, also when a create and a cancel on the
\* same client and provider accounts run at the same time; a balance
\* transaction that cannot commit because of contention ends in an error
\* returned to the caller.
C35_EveryRequestReturns == \A w \in Workers : (pc[w] # "idle") ~> (pc[w] = "idle")
\* a create that lost its payment to a concurrent cancel on the same accounts
\* has returned its error while the cancel is still in flight
C35_Witness ==
    /\ result.op = "create" /\ result.kind = "TransferAborted"
    /\ pc["w1"] = "idle" /\ pc["w2"] = "x_transfer"


\* C36: refunds are always affordable. In every state reached through
\* createBooking and cancelBooking alone, each provider's balance is at least
\* the sum of the amounts of that provider's confirmed bookings, so the
\* provider debit of a cancel of a confirmed booking never fails for
\* insufficient balance.
C36_ProviderCoversConfirmed ==
    \A p \in Users :
        balance[p] >= SumOver([b \in BookingIds |-> bookings[b].amount],
                              {b \in BookingIds : /\ bookings[b].status = "confirmed"
                                                  /\ bookings[b].providerId = p})


\* the signed amount of a leg
SignedAmount(l) == IF l.type = "debit" THEN -l.amount ELSE l.amount

\* C37: legs on the same account compose. When a successful
\* executeMultiUserOperation call has two legs that name the same account,
\* the account's final balance is its initial balance plus the sum of the
\* signed amounts of the legs, and the second leg's ledger record has
\* balanceBefore equal to the first leg's balanceAfter.
C37_Step ==
    \A l1, l2 \in LegsAny :
        (/\ ExecuteMultiUserOperation(<<l1, l2>>)
         /\ result'.kind = "ok"
         /\ l1.userId = l2.userId)
        => LET n == Len(ledger)
           IN  /\ balance'[l1.userId]
                     = balance[l1.userId] + SignedAmount(l1) + SignedAmount(l2)
               /\ ledger'[n + 2].balanceBefore = ledger'[n + 1].balanceAfter
C37_SameAccountLegsCompose == [][C37_Step]_vars


\* C38: a deactivated party blocks cancellation. When the client or the
\* provider of a booking has been deactivated after the booking was created,
\* the refund of a cancelBooking is refused for the inactive account, whether
\* it is the credited client or the debited provider: the call fails, the
\* booking stays as it is and no balance and no ledger record changes.
C38_Step ==
    \A w \in Workers :
        (/\ CancelTransfer(w)
         /\ ~isActive[req[w].clientId] \/ ~isActive[req[w].providerId])
        => /\ balance' = balance
           /\ ledger' = ledger
           /\ bookings' = bookings
           /\ pc'[w] = "idle"
           /\ result' = [op |-> "cancel", kind |-> "TransferFailed",
                         bookingId |-> req[w].bookingId]
C38_InactivePartyBlocksCancel == [][C38_Step]_vars
\* the provider's cancel of a confirmed booking was refused because the
\* client, who would be credited, is deactivated; the provider could pay
C38_Witness ==
    /\ Quiescent
    /\ result.op = "cancel" /\ result.kind = "TransferFailed"
    /\ \E b \in BookingIds :
          /\ result.bookingId = b
          /\ bookings[b].status = "confirmed"
          /\ ~isActive[bookings[b].clientId]
          /\ isActive[bookings[b].providerId]
          /\ balance[bookings[b].providerId] >= bookings[b].amount
          /\ cancelOk[b] = 0
====
